---- MODULE Spec2Model ----
(***************************************************************************)
(* Model of app.py: a Streamlit page that loads a classifier and four      *)
(* label encoders once per process (st.cache_resource), shows a form, and  *)
(* on submit encodes the categorical fields, builds the one-row frame,     *)
(* calls the classifier and displays the verdict and the GOOD probability. *)
(* Probabilities are fixed-point numbers in units of 1/Percent.            *)
(***************************************************************************)
EXTENDS Integers, Sequences, FiniteSets, TLC

VARIABLES files, missing, cache, loads, pc, assets, page, first, failedBefore

vars == <<files, missing, cache, loads, pc, assets, page, first, failedBefore>>

-----------------------------------------------------------------------------
(* Sentinels and program constants *)

None == -1
Unbound == -2
ValueError == -3

GOOD_CLASS == 1
Percent == 100

NumSessions == 2

NoFrame == <<>>

AssetNames == {"model", "Sex", "Housing", "Saving accounts", "Checking account"}

EncoderCols == <<"Sex", "Housing", "Saving accounts", "Checking account">>

FeatureOrder ==
  <<"Age", "Sex", "Job", "Housing", "Saving accounts", "Checking account",
    "Credit amount", "Duration">>

-----------------------------------------------------------------------------
(* The form widgets: what a user can submit *)

SexOptions == {"male", "female"}
HousingOptions == {"own", "rent", "free"}
SavingOptions == {"little", "moderate", "rich", "quite rich"}
CheckingOptions == {"little", "moderate", "rich"}

\* <<Age, Job, Credit Amount, Duration>>: the widgets' minima, and their defaults
NumericInputs == { <<18, 0, 1, 1>>, <<30, 1, 1000, 12>> }

Widgets(n, s, h, sa, ca) ==
  [age |-> n[1], sex |-> s, job |-> n[2], housing |-> h,
   saving_accounts |-> sa, checking_account |-> ca,
   credit_amount |-> n[3], duration |-> n[4]]

\* the first option of each selectbox is its default; the inputs keep every
\* selectbox but one at its default, or put all on their last option
FormInputs ==
  UNION { { Widgets(n, s, "own", "little", "little") : s \in SexOptions }
          \cup { Widgets(n, "male", h, "little", "little") :
                   h \in HousingOptions }
          \cup { Widgets(n, "male", "own", sa, "little") :
                   sa \in SavingOptions }
          \cup { Widgets(n, "male", "own", "little", ca) :
                   ca \in CheckingOptions }
          \cup { Widgets(n, "female", "free", "quite rich", "rich") } :
          n \in NumericInputs }

NoRecord ==
  [age |-> None, sex |-> "", job |-> None, housing |-> "",
   saving_accounts |-> "", checking_account |-> "",
   credit_amount |-> None, duration |-> None]

-----------------------------------------------------------------------------
(* The asset files: fitted label encoders and a fitted classifier.          *)
(* An encoder is its classes_ list; a classifier has classes_, the column   *)
(* names it was fitted on, whether it offers predict_proba, and a table of  *)
(* class-probability vectors that its decision for a row is looked up in.   *)

Col(name, classes) == [c \in {name} |-> classes]

StandardEncoders ==
  Col("Sex", <<"female", "male">>) @@
  Col("Housing", <<"free", "own", "rent">>) @@
  Col("Saving accounts", <<"little", "moderate", "quite rich", "rich">>) @@
  Col("Checking account", <<"little", "moderate", "rich">>)

\* fitted on data where no applicant had "quite rich" savings
NarrowEncoders ==
  Col("Saving accounts", <<"little", "moderate", "rich">>) @@ StandardEncoders

\* fitted on data with a missing-value label, and no "free" housing
ShiftedEncoders ==
  Col("Housing", <<"own", "rent">>) @@
  Col("Checking account", <<"little", "moderate", "none", "rich">>) @@
  StandardEncoders

Table2 == << <<100, 0>>, <<0, 100>>, <<50, 50>>, <<30, 70>>, <<75, 25>> >>
Table3 == << <<30, 40, 30>>, <<0, 0, 100>>, <<100, 0, 0>>, <<20, 30, 50>>,
             <<10, 80, 10>> >>

Classifier(classes, has_proba, features) ==
  [classes_ |-> classes, has_predict_proba |-> has_proba,
   feature_names_in_ |-> features,
   table |-> IF Len(classes) = 2 THEN Table2 ELSE Table3]

Classifiers ==
  { Classifier(c, TRUE, FeatureOrder) :
      c \in { <<0, 1>>, <<1, 2>>, <<0, 2>>, <<0, 1, 2>> } }
  \cup { Classifier(c, FALSE, FeatureOrder) : c \in { <<0, 1>>, <<0, 2>> } }
  \cup { Classifier(<<0, 1>>, TRUE, SubSeq(FeatureOrder, 1, 7)) }

AssetFiles ==
  { [model |-> m, encoders |-> StandardEncoders] : m \in Classifiers }
  \cup { [model |-> Classifier(c, TRUE, FeatureOrder), encoders |-> e] :
           c \in { <<0, 1>>, <<0, 2>> },
           e \in { NarrowEncoders, ShiftedEncoders } }

\* nothing loaded: what load_assets yields when a joblib.load raises
NoAssets ==
  [model |-> Classifier(<<>>, FALSE, <<>>),
   encoders |-> [c \in DOMAIN StandardEncoders |-> <<>>]]

-----------------------------------------------------------------------------
(* Library operations the script calls *)

\* a transform that maps an unseen label to code 0 instead of raising
TransformDefault(enc, label) ==
  IF \E i \in 1..Len(enc) : enc[i] = label
    THEN (CHOOSE i \in 1..Len(enc) : enc[i] = label) - 1
    ELSE 0

\* LabelEncoder.transform([label])[0]: the position of label in classes_
Transform(enc, label) ==
  IF \E i \in 1..Len(enc) : enc[i] = label
    THEN (CHOOSE i \in 1..Len(enc) : enc[i] = label) - 1
    ELSE ValueError

ColumnNames(df) == [i \in 1..Len(df) |-> df[i].col]

RECURSIVE SumVals(_)
SumVals(df) == IF df = <<>> THEN 0 ELSE Head(df).val + SumVals(Tail(df))

\* the classifier's class-probability vector for a row
Decision(model, df) == model.table[(SumVals(df) % Len(model.table)) + 1]

\* numpy argmax: the first position of the largest entry
ArgMax(v) ==
  CHOOSE i \in 1..Len(v) :
    /\ \A j \in 1..Len(v) : v[j] <= v[i]
    /\ \A j \in 1..(i - 1) : v[j] < v[i]

\* model.predict(input_df)[0]
Predict(model, df) ==
  IF ColumnNames(df) # model.feature_names_in_
    THEN ValueError
    ELSE model.classes_[ArgMax(Decision(model, df))]

\* model.predict_proba(input_df)[0]
PredictProba(model, df) ==
  IF ColumnNames(df) # model.feature_names_in_
    THEN <<>>
    ELSE Decision(model, df)

\* list(model.classes_).index(1), 0-based
IndexOf(classes, c) == (CHOOSE i \in 1..Len(classes) : classes[i] = c) - 1

In(c, classes) == \E i \in 1..Len(classes) : classes[i] = c

-----------------------------------------------------------------------------
(* The script's result column, lines 129-168 *)

Min(a, b) == IF a < b THEN a ELSE b
Max(a, b) == IF a > b THEN a ELSE b

\* the widget value each encoder is applied to
LabelOf(rec, col) ==
  CASE col = "Sex" -> rec.sex
    [] col = "Housing" -> rec.housing
    [] col = "Saving accounts" -> rec.saving_accounts
    [] col = "Checking account" -> rec.checking_account

Code(encoders, rec, col) == Transform(encoders[col], LabelOf(rec, col))

\* how many transform calls the dict literal makes: it stops at the first
\* one that raises
Transforms(encoders, rec) ==
  LET bad == { i \in 1..Len(EncoderCols) :
                 Code(encoders, rec, EncoderCols[i]) = ValueError }
  IN  IF bad = {} THEN Len(EncoderCols)
      ELSE CHOOSE i \in bad : \A j \in bad : i <= j

Cell(name, value) == [col |-> name, val |-> value]

\* a frame with the Job and Sex columns in each other's place
BuildFrameSwapped(encoders, rec) ==
  IF \E i \in 1..Len(EncoderCols) :
       Code(encoders, rec, EncoderCols[i]) = ValueError
    THEN NoFrame
    ELSE << Cell("Age", rec.age),
            Cell("Job", rec.job),
            Cell("Sex", Code(encoders, rec, "Sex")),
            Cell("Housing", Code(encoders, rec, "Housing")),
            Cell("Saving accounts", Code(encoders, rec, "Saving accounts")),
            Cell("Checking account", Code(encoders, rec, "Checking account")),
            Cell("Credit amount", rec.credit_amount),
            Cell("Duration", rec.duration) >>

\* a frame whose encoded columns are kept from the last run that built one
BuildFrameMemo(encoders, rec) ==
  IF \E i \in 1..Len(EncoderCols) :
       Code(encoders, rec, EncoderCols[i]) = ValueError
    THEN NoFrame
    ELSE LET kept(i, fresh) == IF page.input_df # NoFrame
                                 THEN page.input_df[i].val ELSE fresh
         IN
         << Cell("Age", rec.age),
            Cell("Sex", kept(2, Code(encoders, rec, "Sex"))),
            Cell("Job", rec.job),
            Cell("Housing", kept(4, Code(encoders, rec, "Housing"))),
            Cell("Saving accounts",
                 kept(5, Code(encoders, rec, "Saving accounts"))),
            Cell("Checking account",
                 kept(6, Code(encoders, rec, "Checking account"))),
            Cell("Credit amount", rec.credit_amount),
            Cell("Duration", rec.duration) >>

\* input_df = pd.DataFrame({...}); NoFrame when a transform raised
BuildFrame(encoders, rec) ==
  IF \E i \in 1..Len(EncoderCols) :
       Code(encoders, rec, EncoderCols[i]) = ValueError
    THEN NoFrame
    ELSE << Cell("Age", rec.age),
            Cell("Sex", Code(encoders, rec, "Sex")),
            Cell("Job", rec.job),
            Cell("Housing", Code(encoders, rec, "Housing")),
            Cell("Saving accounts", Code(encoders, rec, "Saving accounts")),
            Cell("Checking account", Code(encoders, rec, "Checking account")),
            Cell("Credit amount", rec.credit_amount),
            Cell("Duration", rec.duration) >>

\* the probability read at the fixed position 1, whatever classes_ is
ProbaGoodSecond(model, proba) ==
  IF In(GOOD_CLASS, model.classes_) THEN proba[2] ELSE None

\* proba_good = float(proba[list(model.classes_).index(1)])
\*                if 1 in model.classes_ else None
ProbaGood(model, proba) ==
  IF In(GOOD_CLASS, model.classes_)
    THEN proba[IndexOf(model.classes_, GOOD_CLASS) + 1]
    ELSE None

\* proba_bad: None unless the if at line 151 assigns 1 - proba_good
ProbaBad(proba_good) ==
  IF proba_good # None THEN Percent - proba_good ELSE None

\* lines 144-152: the names proba_good and proba_bad after the block
Probabilities(model, df) ==
  IF model.has_predict_proba
    THEN LET proba_good == ProbaGood(model, PredictProba(model, df))
         IN  [proba_calls |-> 1, proba_good |-> proba_good,
              proba_bad |-> ProbaBad(proba_good)]
    ELSE [proba_calls |-> 0, proba_good |-> Unbound, proba_bad |-> None]

\* the verdict taken from the truth value of the label
VerdictTruthy(pred) == IF pred # 0 THEN "GOOD" ELSE "BAD"

\* lines 155-158
Verdict(pred) == IF pred = GOOD_CLASS THEN "GOOD" ELSE "BAD"

\* the guard of line 163 written on proba_good
ShowsProbabilityByGood(p) == p.proba_good # None

\* line 163: whether the third metric and the progress bar are drawn
ShowsProbability(p) == p.proba_bad # None

\* line 165: st.progress(min(max(proba_good, 0.0), 1.0))
Progress(proba_good) == Min(Max(proba_good, 0), Percent)

BlankPage ==
  [status |-> "none", form |-> FALSE, submitted |-> FALSE, rec |-> NoRecord,
   transforms |-> 0, input_df |-> NoFrame, predict_calls |-> 0,
   predict_arg |-> NoFrame, proba_calls |-> 0, pred |-> None,
   proba_good |-> Unbound, proba_bad |-> None, verdict |-> "",
   amounts |-> FALSE, metric |-> None, progress |-> None,
   encoded |-> NoFrame]

\* load_assets() raised at line 51: the script stops there
LoadErrorPage == [BlankPage EXCEPT !.status = "load_error"]

\* lines 56-122: sidebar, header and the form with its widget values
FormPage(rec) == [BlankPage EXCEPT !.status = "form", !.form = TRUE, !.rec = rec]

\* lines 130-168: the body of "if submitted"
ResultPage(loaded, rec) ==
  LET model == loaded.model
      encoders == loaded.encoders
      input_df == BuildFrame(encoders, rec)
      encoding == [FormPage(rec) EXCEPT
                     !.submitted = TRUE,
                     !.transforms = Transforms(encoders, rec),
                     !.input_df = input_df]
  IN
  IF input_df = NoFrame THEN [encoding EXCEPT !.status = "exception"]
  ELSE
    LET pred == Predict(model, input_df)
        scoring == [encoding EXCEPT !.predict_calls = 1,
                                    !.predict_arg = input_df,
                                    !.pred = pred]
    IN
    IF pred = ValueError THEN [scoring EXCEPT !.status = "exception"]
    ELSE
      LET p == Probabilities(model, input_df)
          judged == [scoring EXCEPT !.proba_calls = p.proba_calls,
                                    !.proba_good = p.proba_good,
                                    !.proba_bad = p.proba_bad,
                                    !.verdict = Verdict(pred),
                                    !.amounts = TRUE]
      IN
      IF ~ShowsProbability(p)
        THEN [judged EXCEPT !.status = "result", !.encoded = input_df]
      ELSE IF p.proba_good = Unbound
        THEN [judged EXCEPT !.status = "exception"]
      ELSE [judged EXCEPT !.status = "result",
                          !.metric = p.proba_good,
                          !.progress = Progress(p.proba_good),
                          !.encoded = input_df]

\* a page that runs the result block whether or not the button was pressed
PageUnguarded(loaded, rec, submitted) ==
  [ResultPage(loaded, rec) EXCEPT !.submitted = submitted]

\* the page of one script run past line 51
Page(loaded, rec, submitted) ==
  IF submitted THEN ResultPage(loaded, rec) ELSE FormPage(rec)

-----------------------------------------------------------------------------
(* The process: the resource cache, and script runs of the sessions *)

EmptyCache == [gen |-> 0, obj |-> NoAssets]

\* joblib.load of the five files, model first (lines 44-48)
LoadAssets(present, absent) ==
  IF "model" \in absent THEN NoAssets
  ELSE IF \E i \in 1..Len(EncoderCols) : EncoderCols[i] \in absent
    THEN NoAssets
  ELSE [model |-> present.model,
        encoders |-> [c \in { EncoderCols[i] : i \in 1..Len(EncoderCols) } |->
                        present.encoders[c]]]

WatchInputs ==
  { Widgets(<<30, 1, 1000, 12>>, "male", "own", "little", "little"),
    Widgets(<<18, 0, 1, 1>>, "female", "free", "quite rich", "rich") }

TypeOK ==
  /\ files \in AssetFiles
  /\ missing \subseteq AssetNames
  /\ loads \in Nat
  /\ \A s \in DOMAIN pc : pc[s] \in {"idle", "compute", "script"}

InitWith(sessions, fileSets) ==
  /\ files \in fileSets
  /\ missing \in { {}, {"model"}, {"Checking account"} }
  /\ cache = EmptyCache
  /\ loads = 0
  /\ pc = [s \in sessions |-> "idle"]
  /\ assets = [s \in sessions |-> EmptyCache]
  /\ page = BlankPage
  /\ first = BlankPage
  /\ failedBefore = FALSE

\* one browser session
Init == InitWith({1}, AssetFiles)

\* several sessions of one process
InitShared ==
  InitWith(1..NumSessions,
           { f \in AssetFiles : /\ f.encoders = StandardEncoders
                                /\ f.model.has_predict_proba
                                /\ Len(f.model.classes_) = 2 })

\* a script run starts; line 51 finds the cached value, or has to compute it
StartRender(s) ==
  /\ pc[s] = "idle"
  /\ IF cache.gen # 0
       THEN /\ assets' = [assets EXCEPT ![s] = cache]
            /\ pc' = [pc EXCEPT ![s] = "script"]
       ELSE /\ pc' = [pc EXCEPT ![s] = "compute"]
            /\ UNCHANGED assets
  /\ UNCHANGED <<files, missing, cache, loads, page, first, failedBefore>>

\* a miss that calls load_assets without looking at the cache again
ComputeAssetsUnlocked(s) ==
  /\ pc[s] = "compute"
  /\ LET loaded == LoadAssets(files, missing)
     IN  IF loaded = NoAssets
           THEN /\ page' = LoadErrorPage
                /\ pc' = [pc EXCEPT ![s] = "idle"]
                /\ UNCHANGED <<cache, loads, assets>>
           ELSE /\ loads' = loads + 1
                /\ cache' = [gen |-> loads + 1, obj |-> loaded]
                /\ assets' = [assets EXCEPT ![s] = cache']
                /\ pc' = [pc EXCEPT ![s] = "script"]
                /\ UNCHANGED page
  /\ UNCHANGED <<files, missing, first, failedBefore>>

\* a miss whose load error is swallowed: the script goes on without assets
ComputeAssetsSwallow(s) ==
  /\ pc[s] = "compute"
  /\ IF cache.gen # 0
       THEN /\ assets' = [assets EXCEPT ![s] = cache]
            /\ UNCHANGED <<cache, loads>>
       ELSE LET loaded == LoadAssets(files, missing)
            IN  IF loaded = NoAssets
                  THEN UNCHANGED <<cache, loads, assets>>
                  ELSE /\ loads' = loads + 1
                       /\ cache' = [gen |-> loads + 1, obj |-> loaded]
                       /\ assets' = [assets EXCEPT ![s] = cache']
  /\ pc' = [pc EXCEPT ![s] = "script"]
  /\ UNCHANGED <<files, missing, page, first, failedBefore>>

\* the cache miss, under the cache's compute lock: look again, then call
\* load_assets and store what it returns; if it raises, the script run ends
ComputeAssets(s) ==
  /\ pc[s] = "compute"
  /\ IF cache.gen # 0
       THEN /\ assets' = [assets EXCEPT ![s] = cache]
            /\ pc' = [pc EXCEPT ![s] = "script"]
            /\ UNCHANGED <<cache, loads, page>>
       ELSE LET loaded == LoadAssets(files, missing)
            IN  IF loaded = NoAssets
                  THEN /\ page' = LoadErrorPage
                       /\ pc' = [pc EXCEPT ![s] = "idle"]
                       /\ UNCHANGED <<cache, loads, assets>>
                  ELSE /\ loads' = loads + 1
                       /\ cache' = [gen |-> loads + 1, obj |-> loaded]
                       /\ assets' = [assets EXCEPT ![s] = cache']
                       /\ pc' = [pc EXCEPT ![s] = "script"]
                       /\ UNCHANGED page
  /\ UNCHANGED <<files, missing, first, failedBefore>>

\* a script run that fails whenever an earlier run of the process failed
RunScriptPoisoned(s) ==
  /\ pc[s] = "script"
  /\ \E rec \in FormInputs, submitted \in BOOLEAN :
       /\ page' = IF failedBefore
                    THEN [FormPage(rec) EXCEPT !.status = "exception",
                                               !.submitted = submitted]
                    ELSE Page(assets[s].obj, rec, submitted)
       /\ first' = IF first = BlankPage /\ submitted /\ rec \in WatchInputs
                     THEN page' ELSE first
       /\ failedBefore' = (failedBefore \/ page'.status = "exception")
  /\ pc' = [pc EXCEPT ![s] = "idle"]
  /\ UNCHANGED <<files, missing, cache, loads, assets>>

\* lines 56-170 with the widget values and the submit button of this run
RunScript(s) ==
  /\ pc[s] = "script"
  /\ \E rec \in FormInputs, submitted \in BOOLEAN :
       /\ page' = Page(assets[s].obj, rec, submitted)
       /\ first' = IF first = BlankPage /\ submitted /\ rec \in WatchInputs
                     THEN page' ELSE first
       /\ failedBefore' = (failedBefore \/ page'.status = "exception")
  /\ pc' = [pc EXCEPT ![s] = "idle"]
  /\ UNCHANGED <<files, missing, cache, loads, assets>>

\* the operator restores the asset files
FixAssets ==
  /\ missing # {}
  /\ missing' = {}
  /\ UNCHANGED <<files, cache, loads, pc, assets, page, first, failedBefore>>

\* an asset file disappears from the working directory
RemoveAsset ==
  /\ missing = {}
  /\ missing' = {"model"}
  /\ UNCHANGED <<files, cache, loads, pc, assets, page, first, failedBefore>>

Next ==
  \/ \E s \in DOMAIN pc : StartRender(s)
  \/ \E s \in DOMAIN pc : ComputeAssets(s)
  \/ \E s \in DOMAIN pc : RunScript(s)
  \/ FixAssets
  \/ RemoveAsset

Spec == Init /\ [][Next]_vars

SpecShared == InitShared /\ [][Next]_vars

-----------------------------------------------------------------------------
(* Properties *)

\* every widget label of rec is in the vocabulary of its column's encoder
InVocabulary(rec) ==
  \A i \in 1..Len(EncoderCols) :
    \E k \in 1..Len(files.encoders[EncoderCols[i]]) :
      files.encoders[EncoderCols[i]][k] = LabelOf(rec, EncoderCols[i])

\* the 1-based position of the cell's code in the classes_ of column col
Decodes(cell, col, label) ==
  /\ cell.val + 1 \in 1..Len(files.encoders[col])
  /\ files.encoders[col][cell.val + 1] = label

Scored == page.submitted /\ page.pred # None /\ page.pred # ValueError

\* C1: the frame built for a submitted record has exactly the 8 columns Age,
\* Sex, Job, Housing, Saving accounts, Checking account, Credit amount,
\* Duration in that order; each categorical column holds the code of the
\* submitted label in its own encoder and each numeric column holds the
\* submitted number unchanged. No frame is built only when an encoder does
\* not know a submitted label.
C1_FeatureRow ==
  page.submitted =>
    LET df == page.input_df
        rec == page.rec
    IN  \/ df = NoFrame /\ ~InVocabulary(rec)
        \/ /\ Len(df) = 8
           /\ ColumnNames(df) = FeatureOrder
           /\ df[1].val = rec.age
           /\ Decodes(df[2], "Sex", rec.sex)
           /\ df[3].val = rec.job
           /\ Decodes(df[4], "Housing", rec.housing)
           /\ Decodes(df[5], "Saving accounts", rec.saving_accounts)
           /\ Decodes(df[6], "Checking account", rec.checking_account)
           /\ df[7].val = rec.credit_amount
           /\ df[8].val = rec.duration

C1_Witness ==
  /\ page.submitted
  /\ page.rec.saving_accounts = "quite rich"
  /\ page.rec.sex = "male"
  /\ page.input_df # NoFrame
  /\ page.input_df[5].val = 2
  /\ page.input_df[7].val = 1000

\* C2: once predict has returned a label, exactly one verdict is displayed,
\* and it is GOOD exactly when the label is the class id 1, whatever the
\* probabilities are.
C2_Verdict ==
  Scored =>
    /\ page.verdict \in {"GOOD", "BAD"}
    /\ (page.verdict = "GOOD") <=> (page.pred = GOOD_CLASS)

\* GOOD is displayed for the label 1 although P(GOOD) is below one half
C2_Witness ==
  /\ Scored
  /\ page.pred = GOOD_CLASS
  /\ page.verdict = "GOOD"
  /\ page.proba_good = 40

\* C3: a submitted label outside its encoder's vocabulary ends the run with
\* the transform's error: no frame, no predict or predict_proba call, no
\* verdict, nothing of a result displayed.
C3_UnknownCategory ==
  (page.submitted /\ ~InVocabulary(page.rec)) =>
    /\ page.status = "exception"
    /\ page.input_df = NoFrame
    /\ page.predict_calls = 0
    /\ page.proba_calls = 0
    /\ page.pred = None
    /\ page.verdict = ""
    /\ page.encoded = NoFrame
    /\ page.metric = None

C3_Witness ==
  /\ page.submitted
  /\ ~InVocabulary(page.rec)
  /\ page.rec.housing = "free"
  /\ page.transforms = 2
  /\ page.status = "exception"

HasGoodProbability ==
  /\ files.model.has_predict_proba
  /\ In(GOOD_CLASS, files.model.classes_)

\* C4: once predict has returned a label the run ends with the verdict
\* displayed and without an exception; the probability metric and the
\* progress bar are displayed exactly when the classifier has predict_proba
\* and class id 1 is among its classes.
C4_ProbabilityReported ==
  Scored =>
    /\ page.status = "result"
    /\ page.verdict \in {"GOOD", "BAD"}
    /\ (page.metric # None) <=> HasGoodProbability
    /\ (page.progress # None) <=> HasGoodProbability
    /\ HasGoodProbability => page.proba_good \notin {None, Unbound}

\* a classifier without predict_proba: verdict and no probability
C4_Witness ==
  /\ Scored
  /\ ~files.model.has_predict_proba
  /\ In(GOOD_CLASS, files.model.classes_)
  /\ page.status = "result"
  /\ page.verdict = "GOOD"
  /\ page.metric = None

\* C5: when a probability is displayed, P(GOOD) is the entry of the
\* classifier's probability vector at the position of class id 1 in
\* classes_, P(BAD) is the rest to one, P(GOOD) is between 0 and 1 and so is
\* the value given to the progress bar.
C5_Probability ==
  (Scored /\ HasGoodProbability) =>
    LET classes == files.model.classes_
        proba == Decision(files.model, page.input_df)
    IN  /\ \E k \in 1..Len(classes) :
             classes[k] = GOOD_CLASS /\ page.proba_good = proba[k]
        /\ page.proba_bad = Percent - page.proba_good
        /\ page.proba_good \in 0..Percent
        /\ page.metric = page.proba_good
        /\ page.progress \in 0..Percent

\* class id 1 is the first of the classes <<1, 2>>
C5_Witness ==
  /\ Scored
  /\ files.model.classes_ = <<1, 2>>
  /\ page.proba_good = 30
  /\ page.proba_bad = 70
  /\ page.progress = 30

\* C6: the assets are loaded successfully at most once; the cached value is
\* what that load returned and every script run past line 51 holds that very
\* value.
C6_LoadedOnce ==
  /\ loads <= 1
  /\ cache.gen = loads
  /\ cache.gen # 0 => cache.obj = files
  /\ \A s \in DOMAIN pc :
       /\ pc[s] = "script" => (cache.gen = 1 /\ assets[s] = cache)
       /\ assets[s] \in {EmptyCache, cache}

\* a run that missed the cache while another run was loading
C6_Witness ==
  \E s, r \in DOMAIN pc :
    /\ pc[s] = "script"
    /\ pc[r] = "compute"
    /\ cache.gen = 1
    /\ missing # {}

\* C7: a run with the button pressed and all labels known calls predict
\* exactly once, on the frame it built; a run without the button pressed
\* calls no encoder and no classifier method and displays no verdict.
C7_OncePerClick ==
  /\ (page.submitted /\ InVocabulary(page.rec)) =>
       /\ page.predict_calls = 1
       /\ page.predict_arg = page.input_df
       /\ page.transforms = Len(EncoderCols)
  /\ (page.form /\ ~page.submitted) =>
       /\ page.status = "form"
       /\ page.transforms = 0
       /\ page.predict_calls = 0
       /\ page.proba_calls = 0
       /\ page.verdict = ""
       /\ page.input_df = NoFrame

C7_Witness ==
  /\ page.form
  /\ ~page.submitted
  /\ first # BlankPage
  /\ first.predict_calls = 1

\* C8 as claimed: a failed submit displays no verdict and nothing of a
\* result and calls predict at most once, and after a failed submit every
\* submit whose labels the encoders know completes and displays a verdict.
C8_AnyLaterSubmitCompletes ==
  /\ page.status = "exception" =>
       /\ page.verdict = ""
       /\ ~page.amounts
       /\ page.metric = None
       /\ page.progress = None
       /\ page.encoded = NoFrame
       /\ page.predict_calls <= 1
       /\ page.proba_calls = 0
  /\ (failedBefore /\ page.submitted /\ InVocabulary(page.rec)) =>
       /\ page.status = "result"
       /\ page.verdict \in {"GOOD", "BAD"}

\* C8 (amended): a failed submit displays no verdict and nothing of a result
\* and calls predict at most once; after a failed submit, a submit whose
\* labels the encoders know and whose frame the classifier accepts displays
\* the verdict of the label predicted for its own frame.
C8_FailureConfined ==
  /\ page.status = "exception" =>
       /\ page.verdict = ""
       /\ ~page.amounts
       /\ page.metric = None
       /\ page.progress = None
       /\ page.encoded = NoFrame
       /\ page.predict_calls <= 1
       /\ page.proba_calls = 0
  /\ ( /\ failedBefore
       /\ page.submitted
       /\ InVocabulary(page.rec)
       /\ files.model.feature_names_in_ = FeatureOrder ) =>
       /\ page.status = "result"
       /\ page.pred =
            files.model.classes_[ArgMax(Decision(files.model, page.input_df))]
       /\ page.verdict = IF page.pred = GOOD_CLASS THEN "GOOD" ELSE "BAD"

\* a submit of known labels displays GOOD after a submit that failed
C8_Witness ==
  /\ failedBefore
  /\ first.status = "exception"
  /\ page.submitted
  /\ page.status = "result"
  /\ page.verdict = "GOOD"

\* C9: a run in which load_assets raises shows no form, calls no encoder and
\* no classifier method and displays no verdict; as long as no load has
\* succeeded, no run has shown the form.
C9_LoadFailure ==
  /\ page.status = "load_error" =>
       /\ ~page.form
       /\ page.transforms = 0
       /\ page.predict_calls = 0
       /\ page.proba_calls = 0
       /\ page.verdict = ""
  /\ cache.gen = 0 =>
       /\ page.status \in {"none", "load_error"}
       /\ ~page.form
       /\ \A s \in DOMAIN pc : pc[s] # "script"

\* an encoder file is missing and a run has failed on it
C9_Witness ==
  /\ page.status = "load_error"
  /\ missing = {"Checking account"}
  /\ cache.gen = 0
  /\ pc[1] = "idle"

====
